---- MODULE Spec2Model ----
(***************************************************************************)
(* FreeformStateManager (src/freeform_state_manager.js): persistence of    *)
(* form input across swup page transitions.  The model has the field codec *)
(* (extractFormState / applyFormState) as operators over a form's element  *)
(* list, and the manager's handlers, timers and storage as actions.        *)
(***************************************************************************)
EXTENDS Integers, Sequences, FiniteSets, TLC

VARIABLES
    site,       \* the ids of the forms the web site has on its pages
    options,    \* this.options: autoSave, autoRestore, clearOnSubmit, excludeFields
    elements,   \* the form elements of the current DOM generation, by form id
    attached,   \* ids of the form elements that are in the document
    forms,      \* this.forms: the registry, form id -> {element, storageKey, lastSaved}
    storage,    \* localStorage, storage key -> envelope
    timers,     \* pending setTimeout callbacks, in arming order
    now,        \* Date.now(), in ms
    ticks,      \* number of clock advances so far
    phase,      \* idle, replacing and animating (swup transition), loading (page load)
    incoming,   \* the forms of the page about to be shown, as rendered
    last,       \* the handler that ran last, with what it was called on and what
                \* it returned
    broken,     \* the storage keys whose getItem, setItem and removeItem throw
    listeners   \* form id -> how many times attachFormListeners added its
                \* listeners to the form element that is in the document

vars == <<site, options, elements, attached, forms, storage, timers, now, ticks,
          phase, incoming, last, broken, listeners>>

----------------------------------------------------------------------------
(* Bounds *)

MaxLen    == 2      \* elements per form in the codec specification
MaxTicks  == 2      \* clock advances
MaxTimers == 2      \* pending timers
MaxNow    == 1000   \* ms after which no burst starts in the timing specification
MaxListeners == 2   \* listener sets on one form element

(* Program constants *)

maxAge        == 24 * 60 * 60 * 1000
DebounceWait  == 500
ClickWait     == 100
SubmitWait    == 1000
AnimWait      == 100
storagePrefix == "freeform_state_"

----------------------------------------------------------------------------
(* DOM elements of a form.  A form is the sequence of its named controls   *)
(* in tree order.                                                          *)

Opt(v, s) == [value |-> v, selected |-> s]

(* open: the element is the hidden input of a .selectMultiple container *)
(* that carries the class "open".  group: the element lies in a         *)
(* container whose change listener saves at once (.checklist,           *)
(* .deutschFremd, .fileuploader).                                       *)
El(t, n, v, c, o) ==
    [type |-> t, name |-> n, value |-> v, checked |-> c, options |-> o, open |-> FALSE,
     group |-> FALSE]

Text(n, v)        == El("text", n, v, FALSE, <<>>)
Checkbox(n, v, c) == El("checkbox", n, v, c, <<>>)
Radio(n, v, c)    == El("radio", n, v, c, <<>>)
SelectOne(n, o)   == El("select-one", n, "", FALSE, o)
SelectMulti(n, o) == El("select-multiple", n, "", FALSE, o)
FileInput(n)      == El("file", n, "", FALSE, <<>>)
Widget(n, v, op)  == [El("hidden", n, v, FALSE, <<>>) EXCEPT !.open = op]
InGroup(e)        == [e EXCEPT !.group = TRUE]

FileObj  == "[object File]"     \* a File entry of FormData
EmptyObj == "{}"                \* what JSON.stringify makes of a File

(* A snapshot value: a string, or an array of strings. *)
Scalar(s) == [arr |-> FALSE, items |-> <<s>>]
List(q)   == [arr |-> TRUE, items |-> q]

(* JavaScript truthiness of state[key] when the key is present. *)
Truthy(v) == v.arr \/ v.items[1] # ""

Includes(q, x) == \E i \in 1..Len(q) : q[i] = x

(* new FormData(form).entries(): the entry list the browser constructs. *)
RECURSIVE OptionEntries(_, _)
OptionEntries(n, o) ==
    IF o = <<>> THEN <<>>
    ELSE (IF o[1].selected THEN <<[key |-> n, value |-> o[1].value]>> ELSE <<>>)
         \o OptionEntries(n, Tail(o))

ElementEntries(e) ==
    IF e.name = "" THEN <<>>
    ELSE CASE e.type \in {"checkbox", "radio"} ->
                IF e.checked THEN <<[key |-> e.name, value |-> e.value]>> ELSE <<>>
           [] e.type \in {"select-one", "select-multiple"} ->
                OptionEntries(e.name, e.options)
           [] e.type = "file" -> <<[key |-> e.name, value |-> FileObj]>>
           [] OTHER -> <<[key |-> e.name, value |-> e.value]>>

RECURSIVE FormDataEntries(_)
FormDataEntries(form) ==
    IF form = <<>> THEN <<>>
    ELSE ElementEntries(form[1]) \o FormDataEntries(Tail(form))

----------------------------------------------------------------------------
(* extractFormState *)

(* One iteration of the loop over formData.entries(), lines 235-248. *)
AddEntry(excl, st, key, value) ==
    IF key \in excl THEN st
    ELSE IF key \in DOMAIN st /\ Truthy(st[key])
         THEN IF st[key].arr
              THEN [st EXCEPT ![key] = List(Append(@.items, value))]
              ELSE [st EXCEPT ![key] = List(<<@.items[1], value>>)]
         ELSE (key :> Scalar(value)) @@ st

RECURSIVE AddEntries(_, _, _)
AddEntries(excl, st, entries) ==
    IF entries = <<>> THEN st
    ELSE AddEntries(excl, AddEntry(excl, st, entries[1].key, entries[1].value),
                    Tail(entries))

(* state._unchecked: the names of the unchecked checkboxes, lines 251-260. *)
RECURSIVE UncheckedNames(_, _)
UncheckedNames(excl, form) ==
    IF form = <<>> THEN <<>>
    ELSE (IF form[1].type = "checkbox" /\ form[1].name \notin excl /\ ~form[1].checked
          THEN <<form[1].name>> ELSE <<>>)
         \o UncheckedNames(excl, Tail(form))

(* state[name] = radio.value for every checked radio, lines 263-267. *)
RECURSIVE AddRadios(_, _, _)
AddRadios(excl, st, form) ==
    IF form = <<>> THEN st
    ELSE LET e == form[1]
             st1 == IF e.type = "radio" /\ e.checked /\ e.name \notin excl
                    THEN (e.name :> Scalar(e.value)) @@ st
                    ELSE st
         IN AddRadios(excl, st1, Tail(form))

(* state._custom: the keys name + "_open" of the open dropdown widgets,    *)
(* kept as the set of those names.  No file is ever chosen in this model,  *)
(* so no name + "_files" key arises.                                       *)
extractCustomElements(form) ==
    {form[i].name : i \in {j \in 1..Len(form) :
        form[j].type = "hidden" /\ form[j].open /\ form[j].name # ""}}

EmptyFields == [k \in {} |-> Scalar("")]

extractFormState(excl, form) ==
    [fields    |-> AddRadios(excl, AddEntries(excl, EmptyFields, FormDataEntries(form)), form),
     unchecked |-> UncheckedNames(excl, form),
     custom    |-> extractCustomElements(form)]

(* JSON.parse(JSON.stringify(state)): strings and arrays come back as they *)
(* were, a File object comes back as an empty object.                      *)
JSONItem(s) == IF s = FileObj THEN EmptyObj ELSE s

JSONRoundTrip(state) ==
    [state EXCEPT !.fields =
        [k \in DOMAIN state.fields |->
            [arr   |-> state.fields[k].arr,
             items |-> [i \in 1..Len(state.fields[k].items) |->
                          JSONItem(state.fields[k].items[i])]]]]

----------------------------------------------------------------------------
(* applyFormState *)

(* element.value = v on a select-one: the first option with that value     *)
(* becomes the selected one, every other option is deselected.             *)
SetSelectValue(o, v) ==
    LET hits == {i \in 1..Len(o) : o[i].value = v}
        first == IF hits = {} THEN 0 ELSE CHOOSE i \in hits : \A j \in hits : i <= j
    IN [i \in 1..Len(o) |-> [o[i] EXCEPT !.selected = (i = first)]]

(* The body of the elements.forEach of restoreField, lines 368-398. *)
restoreElement(e, value) ==
    CASE e.type = "checkbox" ->
            [e EXCEPT !.checked = IF value.arr THEN Includes(value.items, e.value)
                                  ELSE value.items[1] = e.value]
      [] e.type = "radio" ->
            [e EXCEPT !.checked = (~value.arr /\ value.items[1] = e.value)]
      [] e.type = "select-multiple" ->
            [e EXCEPT !.options =
                [i \in 1..Len(e.options) |->
                    [e.options[i] EXCEPT !.selected =
                        IF value.arr THEN Includes(value.items, e.options[i].value)
                        ELSE e.options[i].value = value.items[1]]]]
      [] e.type = "file" -> e
      [] e.type = "select-one" ->
            [e EXCEPT !.options = SetSelectValue(e.options, value.items[1])]
      [] OTHER -> [e EXCEPT !.value = value.items[1]]

restoreField(form, name, value) ==
    [i \in 1..Len(form) |->
        IF form[i].name = name THEN restoreElement(form[i], value) ELSE form[i]]

(* key.startsWith('_'): no control of this model has such a name. *)
IsMetaKey(key) == key \in {"_unchecked", "_custom"}

RECURSIVE RestoreFields(_, _, _)
RestoreFields(form, fields, keys) ==
    IF keys = {} THEN form
    ELSE LET k == CHOOSE x \in keys : TRUE
         IN RestoreFields(IF IsMetaKey(k) THEN form ELSE restoreField(form, k, fields[k]),
                          fields, keys \ {k})

(* form.querySelector: the first element that matches. *)
querySelector(form, type, name) ==
    LET hits == {i \in 1..Len(form) : form[i].type = type /\ form[i].name = name}
    IN IF hits = {} THEN 0 ELSE CHOOSE i \in hits : \A j \in hits : i <= j

RECURSIVE restoreCustomElements(_, _)
restoreCustomElements(form, custom) ==
    IF custom = {} THEN form
    ELSE LET n == CHOOSE x \in custom : TRUE
             i == querySelector(form, "hidden", n)
         IN restoreCustomElements(
                IF i = 0 THEN form ELSE [form EXCEPT ![i].open = TRUE],
                custom \ {n})

(* The state._unchecked.forEach of applyFormState, lines 353-358. *)
RECURSIVE ForceUnchecked(_, _)
ForceUnchecked(form, names) ==
    IF names = <<>> THEN form
    ELSE LET i == querySelector(form, "checkbox", names[1])
         IN ForceUnchecked(IF i = 0 THEN form ELSE [form EXCEPT ![i].checked = FALSE],
                           Tail(names))

applyFormState(form, state) ==
    ForceUnchecked(
        restoreCustomElements(
            RestoreFields(form, state.fields, DOMAIN state.fields),
            state.custom),
        state.unchecked)

----------------------------------------------------------------------------
(* The pages of the lifecycle specification.  Form f1 holds a text input,  *)
(* form f2 a checkbox, form f3 a checkbox in a .checklist, the hidden      *)
(* input of a .selectMultiple and a file input in a .fileuploader.         *)

FormIds == {"f1", "f2"}

WidgetForm(c) ==
    <<InGroup(Checkbox("agree", "yes", c)), Widget("tags", "", FALSE), InGroup(FileInput("up"))>>

PageForms(f) ==
    CASE f = "f1" -> {<<Text("email", v)>> : v \in {"", "a"}}
      [] f = "f2" -> {<<Checkbox("subscribe", "yes", c)>> : c \in BOOLEAN}
      [] OTHER -> {WidgetForm(FALSE)}

DefaultForm(f) ==
    CASE f = "f1" -> <<Text("email", "")>>
      [] f = "f2" -> <<Checkbox("subscribe", "yes", FALSE)>>
      [] OTHER -> WidgetForm(FALSE)

(* A page: the forms it holds, by id, as rendered by the server. *)
Pages(ids) ==
    UNION {{p \in [S -> UNION {PageForms(f) : f \in ids}] :
                \A f \in S : p[f] \in PageForms(f)} : S \in SUBSET ids}


NoForms == [f \in {} |-> <<>>]

DefaultExclude == {"honeypot", "csrf_token", "CRAFT_CSRF_TOKEN"}

Opts(as, ar, cs, ex) ==
    [autoSave |-> as, autoRestore |-> ar, clearOnSubmit |-> cs, excludeFields |-> ex]

Configs == {Opts(TRUE, TRUE, TRUE, DefaultExclude),
            Opts(FALSE, FALSE, FALSE, DefaultExclude)}

NoTime == -1        \* lastSaved: null

StorageKey(formId) == storagePrefix \o formId

Entry(formId) == [element |-> formId, storageKey |-> StorageKey(formId), lastSaved |-> NoTime]

(* A pending setTimeout callback.  armed: when setTimeout was called.      *)
(* old: the registry was cleared and built again (contentReplaced) since.  *)
Timer(k, f, d) == [kind |-> k, form |-> f, due |-> d, armed |-> now, old |-> FALSE]

Outlived(tm) == [i \in 1..Len(tm) |-> [tm[i] EXCEPT !.old = TRUE]]

(* A storage entry whose text JSON.parse rejects. *)
Garbled == [text |-> "{"]

(* JSON.parse(savedData) returns an envelope. *)
Parses(entry) == "state" \in DOMAIN entry


Op(o, f) == [op |-> o, form |-> f]

Drop(fn, k) == [x \in DOMAIN fn \ {k} |-> fn[x]]

----------------------------------------------------------------------------
(* The manager's methods, as functions of the state they read. *)

(* saveFormState: the storage after the call.  A setItem that throws is    *)
(* caught at line 222 and leaves the entry as it was.                      *)
saveStorage(st, reg, els, formId) ==
    IF formId \notin DOMAIN reg THEN st
    ELSE IF reg[formId].storageKey \in broken THEN st
    ELSE (reg[formId].storageKey :>
            [state     |-> JSONRoundTrip(extractFormState(options.excludeFields,
                                                          els[reg[formId].element])),
             timestamp |-> now])
         @@ st

(* A saveFormState that stamps lastSaved although setItem threw. *)
saveRegistry_Unguarded(reg, formId) ==
    IF formId \notin DOMAIN reg THEN reg
    ELSE [reg EXCEPT ![formId].lastSaved = now]

(* saveFormState: the registry after the call. *)
saveRegistry(reg, formId) ==
    IF formId \notin DOMAIN reg THEN reg
    ELSE IF reg[formId].storageKey \in broken THEN reg
    ELSE [reg EXCEPT ![formId].lastSaved = now]

(* A clearFormState that empties the store. *)
clearFormState_Everything(st, reg, formId) ==
    IF formId \notin DOMAIN reg THEN st ELSE [k \in {} |-> st[k]]

(* clearFormState: the storage after the call. *)
clearFormState(st, reg, formId) ==
    IF formId \notin DOMAIN reg THEN st
    ELSE IF reg[formId].storageKey \in broken THEN st
    ELSE Drop(st, reg[formId].storageKey)

(* An age test that also rejects an envelope of exactly maxAge. *)
Expired_AtBoundary(envelope) == now - envelope.timestamp >= maxAge

(* The age test of restoreFormState, line 321. *)
Expired(envelope) == now - envelope.timestamp > maxAge

(* restoreFormState: the storage after the call.  A getItem or a           *)
(* JSON.parse that throws is caught at line 332.                           *)
restoreStorage(st, reg, formId) ==
    IF formId \notin DOMAIN reg THEN st
    ELSE LET key == reg[formId].storageKey
         IN IF key \in broken \/ key \notin DOMAIN st THEN st
            ELSE IF ~Parses(st[key]) THEN st
            ELSE IF Expired(st[key]) THEN clearFormState(st, reg, formId)
            ELSE st

(* A restoreFormState that reads the envelope and applies nothing. *)
restoreElementOf_NotApplied(st, reg, els, formId) == els[reg[formId].element]

(* restoreFormState: the form element after the call. *)
restoreElementOf(st, reg, els, formId) ==
    LET key == reg[formId].storageKey
        form == els[reg[formId].element]
    IN IF key \in broken \/ key \notin DOMAIN st THEN form
       ELSE IF ~Parses(st[key]) THEN form
       ELSE IF Expired(st[key]) THEN form
       ELSE applyFormState(form, st[key].state)

(* The 'change' events restoreField dispatches that reach a listener of    *)
(* attachInputListeners: one per restored checkbox, radio or select (text  *)
(* inputs listen to 'input' and 'blur' only, file and hidden inputs are    *)
(* not among the inputs of line 117).                                      *)
ChangeListeners == {"checkbox", "radio", "select-one", "select-multiple"}

restoreDispatches(st, reg, els, formId) ==
    IF formId \notin DOMAIN reg THEN 0
    ELSE LET key == reg[formId].storageKey
             form == els[reg[formId].element]
         IN IF key \in broken \/ key \notin DOMAIN st THEN 0
            ELSE IF ~Parses(st[key]) THEN 0
            ELSE IF Expired(st[key]) THEN 0
            ELSE Cardinality({i \in 1..Len(form) :
                    /\ form[i].name \in DOMAIN st[key].state.fields
                    /\ ~IsMetaKey(form[i].name)
                    /\ form[i].type \in ChangeListeners})

(* A flush that leaves out the forms whose debounce timer is pending. *)
RECURSIVE SaveAll_SkipPending(_, _, _, _)
SaveAll_SkipPending(st, reg, els, ids) ==
    IF ids = {} THEN st
    ELSE LET f == CHOOSE x \in ids : TRUE
             pending == \E i \in 1..Len(timers) :
                            timers[i].kind = "debounce" /\ timers[i].form = f
         IN SaveAll_SkipPending(IF pending THEN st ELSE saveStorage(st, reg, els, f),
                                reg, els, ids \ {f})

RECURSIVE SaveAll(_, _, _, _)
SaveAll(st, reg, els, ids) ==
    IF ids = {} THEN st
    ELSE LET f == CHOOSE x \in ids : TRUE
         IN SaveAll(saveStorage(st, reg, els, f), reg, els, ids \ {f})

RECURSIVE RestoreAllStorage(_, _, _)
RestoreAllStorage(st, reg, ids) ==
    IF ids = {} THEN st
    ELSE LET f == CHOOSE x \in ids : TRUE
         IN RestoreAllStorage(restoreStorage(st, reg, f), reg, ids \ {f})

(* A clear() that stops after the first form of the registry. *)
ClearAll_OnlyFirst(st, reg, ids) ==
    IF ids = {} THEN st ELSE clearFormState(st, reg, CHOOSE x \in ids : TRUE)

RECURSIVE ClearAll(_, _, _)
ClearAll(st, reg, ids) ==
    IF ids = {} THEN st
    ELSE LET f == CHOOSE x \in ids : TRUE
         IN ClearAll(clearFormState(st, reg, f), reg, ids \ {f})

(* restoreFormState reads an envelope and applies it. *)
Applies(st, reg, formId) ==
    /\ formId \in DOMAIN reg
    /\ reg[formId].storageKey \notin broken
    /\ reg[formId].storageKey \in DOMAIN st
    /\ Parses(st[reg[formId].storageKey])
    /\ ~Expired(st[reg[formId].storageKey])

(* The keys of Object.entries(state) that name a control of the form, in   *)
(* the order encode inserted them: the tree order of the encoded form,     *)
(* which had the structure of this one.                                    *)
RECURSIVE KeyOrder(_, _, _)
KeyOrder(form, fields, i) ==
    IF i > Len(form) THEN <<>>
    ELSE LET n == form[i].name
             first == \A j \in 1..(i - 1) : form[j].name # n
         IN (IF first /\ n \in DOMAIN fields /\ ~IsMetaKey(n) THEN <<n>> ELSE <<>>)
            \o KeyOrder(form, fields, i + 1)

IndexesOf(form, n) == SelectSeq([i \in 1..Len(form) |-> i], LAMBDA i : form[i].name = n)

(* The controls in the order restoreField sets them and dispatches         *)
(* 'change' on them.                                                       *)
RECURSIVE RestoreOrder(_, _)
RestoreOrder(form, keys) ==
    IF keys = <<>> THEN <<>>
    ELSE IndexesOf(form, keys[1]) \o RestoreOrder(form, Tail(keys))

(* The last dispatch that bubbles to a container with a saving listener,   *)
(* as a position of RestoreOrder; 0 when there is none.                    *)
LastGroupDispatch(form, ord) ==
    LET hits == {j \in 1..Len(ord) : form[ord[j]].group}
    IN IF hits = {} THEN 0 ELSE CHOOSE j \in hits : \A k \in hits : k <= j

(* The form when that dispatch happens: the controls up to it are set. *)
FormAtDispatch(form, fields, ord, j) ==
    [i \in 1..Len(form) |->
        IF \E k \in 1..j : ord[k] = i THEN restoreElement(form[i], fields[form[i].name])
        ELSE form[i]]

(* restoreFormState on a form whose listeners are attached calls           *)
(* saveFormState from within restoreField.                                 *)
restoreSaves(st, reg, els, formId) ==
    /\ Applies(st, reg, formId)
    /\ LET form == els[reg[formId].element]
           fields == st[reg[formId].storageKey].state.fields
       IN LastGroupDispatch(form, RestoreOrder(form, KeyOrder(form, fields, 1))) > 0

(* restoreFormState on a form whose listeners are attached: the storage    *)
(* after the call.                                                         *)
restoreListened(st, reg, els, formId) ==
    IF restoreSaves(st, reg, els, formId)
    THEN LET form == els[reg[formId].element]
             fields == st[reg[formId].storageKey].state.fields
             ord == RestoreOrder(form, KeyOrder(form, fields, 1))
             seen == FormAtDispatch(form, fields, ord, LastGroupDispatch(form, ord))
         IN saveStorage(st, reg, [els EXCEPT ![reg[formId].element] = seen], formId)
    ELSE restoreStorage(st, reg, formId)

RECURSIVE RestoreAllListened(_, _, _, _)
RestoreAllListened(st, reg, els, ids) ==
    IF ids = {} THEN st
    ELSE LET f == CHOOSE x \in ids : TRUE
         IN RestoreAllListened(restoreListened(st, reg, els, f), reg, els, ids \ {f})

(* The registry after restoreFormState ran on the forms ids. *)
RestoreAllRegistry(st, reg, els, ids) ==
    [f \in DOMAIN reg |->
        IF f \in ids /\ restoreSaves(st, reg, els, f) THEN saveRegistry(reg, f)[f] ELSE reg[f]]

(* A debounce that calls func on the leading edge, without waiting. *)
debounce_Leading(tm, formId) == Append(tm, Timer("debounce", formId, now))

(* A debounce whose timer is lost. *)
debounce_Dropped(tm, formId) == tm

(* debounce(func, wait)(): every call builds a new closure with its own    *)
(* timeout variable, so the clearTimeout of line 599 clears nothing and    *)
(* one more timer is armed.                                                *)
debounce(tm, formId) == Append(tm, Timer("debounce", formId, now + DebounceWait))

RECURSIVE ArmDebounce(_, _, _)
ArmDebounce(tm, formId, n) ==
    IF n = 0 THEN tm ELSE ArmDebounce(debounce(tm, formId), formId, n - 1)

----------------------------------------------------------------------------
(* The state after new FreeformStateManager(): the first page holds the    *)
(* site's forms as rendered, storage is empty, every form is registered    *)
(* and has its listeners.                                                  *)

InitOn(ids) ==
    /\ site = ids
    /\ options \in Configs
    /\ elements = [f \in site |-> DefaultForm(f)]
    /\ attached = site
    /\ forms = [f \in site |-> Entry(f)]
    /\ storage = [k \in {} |-> 0]
    /\ timers = <<>>
    /\ now = 0
    /\ ticks = 0
    /\ phase = "idle"
    /\ incoming = NoForms
    /\ last = Op("init", "all")
    /\ broken = {}
    /\ listeners = [f \in site |-> 1]

(* A site with one form, the checkbox form. *)
Init == InitOn({"f2"})

(* A site with both forms. *)
InitSite == InitOn(FormIds)

(* swup replaces the content and the browser builds a page in one go: no   *)
(* other handler runs in between.                                          *)
Busy == phase \in {"replacing", "loading"}

Interactive(f) == f \in attached /\ f \in DOMAIN forms /\ ~Busy

(* The listener sets on the element of form f: every run of              *)
(* attachFormListeners on an element adds one more of each listener, and   *)
(* all of them hear an event.                                              *)
ListenerSets(f) == IF f \in DOMAIN listeners THEN listeners[f] ELSE 0

(* n listeners of the same kind each arm the timer t. *)
RECURSIVE Arm(_, _, _)
Arm(tm, t, n) == IF n = 0 THEN tm ELSE Arm(Append(tm, t), t, n - 1)

(* The listener of attachInputListeners, lines 140-144, after the user     *)
(* typed v into the text input (v may be the value it already has: blur).  *)
InputEvent(f, v) ==
    /\ Interactive(f)
    /\ elements[f][1].type = "text"
    /\ elements' = [elements EXCEPT ![f][1].value = v]
    /\ IF options.autoSave
       THEN /\ Len(timers) + ListenerSets(f) <= MaxTimers
            /\ timers' = ArmDebounce(timers, f, ListenerSets(f))
       ELSE timers' = timers
    /\ last' = Op("input", f)
    /\ UNCHANGED <<broken, listeners, site, options, attached, forms, storage, now, ticks, phase, incoming>>

(* The same listener after the user toggled the checkbox. *)
ChangeEvent(f) ==
    /\ Interactive(f)
    /\ elements[f][1].type = "checkbox"
    /\ ~elements[f][1].group
    /\ elements' = [elements EXCEPT ![f][1].checked = ~@]
    /\ IF options.autoSave
       THEN /\ Len(timers) + ListenerSets(f) <= MaxTimers
            /\ timers' = ArmDebounce(timers, f, ListenerSets(f))
       ELSE timers' = timers
    /\ last' = Op("change", f)
    /\ UNCHANGED <<broken, listeners, site, options, attached, forms, storage, now, ticks, phase, incoming>>

(* handleFormSubmit *)
handleFormSubmit(f) ==
    /\ Interactive(f)
    /\ IF options.clearOnSubmit
       THEN /\ Len(timers) + ListenerSets(f) <= MaxTimers
            /\ timers' = Arm(timers, Timer("submit", f, now + SubmitWait), ListenerSets(f))
       ELSE timers' = timers
    /\ last' = Op("submit", f)
    /\ UNCHANGED <<broken, listeners, site, options, elements, attached, forms, storage, now, ticks, phase, incoming>>

(* The host page answers a submit by taking the form out of the document   *)
(* without a swup transition (an AJAX submit that replaces the form by a   *)
(* message).                                                               *)
RemoveFromPage(f) ==
    /\ f \in attached
    /\ ~Busy
    /\ last = Op("submit", f)
    /\ attached' = attached \ {f}
    /\ last' = Op("remove", f)
    /\ UNCHANGED <<broken, listeners, site, options, elements, forms, storage, timers, now, ticks, phase, incoming>>

(* The timer the event loop runs next: the earliest due one, the first     *)
(* armed among equals.                                                     *)
Due == {i \in 1..Len(timers) : timers[i].due <= now}

NextTimer ==
    CHOOSE i \in Due : \A j \in Due :
        timers[i].due < timers[j].due \/ (timers[i].due = timers[j].due /\ i <= j)

Without(q, i) == SubSeq(q, 1, i - 1) \o SubSeq(q, i + 1, Len(q))

(* "later" of debounce: saveFormState(formId) *)
DebounceFires ==
    /\ ~Busy
    /\ Due # {}
    /\ timers[NextTimer].kind = "debounce"
    /\ LET f == timers[NextTimer].form
       IN /\ storage' = saveStorage(storage, forms, elements, f)
          /\ forms' = saveRegistry(forms, f)
          /\ last' = Op("timer-save", f)
    /\ timers' = Without(timers, NextTimer)
    /\ UNCHANGED <<broken, listeners, site, options, elements, attached, now, ticks, phase, incoming>>

(* document.querySelector(`#${formId}`) || document.querySelector(`[name="${formId}"]`) *)
FoundOnPage(att, formId) == formId \in att

(* A deferred check that clears without looking at the page. *)
deferredCheck_Unconditional(st, reg, att, formId) == clearFormState(st, reg, formId)

(* The deferred check of handleFormSubmit, lines 495-502. *)
deferredCheck(st, reg, att, formId) ==
    IF FoundOnPage(att, formId) THEN st ELSE clearFormState(st, reg, formId)

SubmitCheckFires ==
    /\ ~Busy
    /\ Due # {}
    /\ timers[NextTimer].kind = "submit"
    /\ LET f == timers[NextTimer].form
       IN /\ storage' = deferredCheck(storage, forms, attached, f)
          /\ last' = Op("timer-check", f)
    /\ timers' = Without(timers, NextTimer)
    /\ UNCHANGED <<broken, listeners, site, options, elements, attached, forms, now, ticks, phase, incoming>>

(* The forms of the registry in Map iteration order. *)
IdOrder == <<"f1", "f2", "f3">>

Registered(reg) == SelectSeq(IdOrder, LAMBDA f : f \in DOMAIN reg)

(* The debounce timers armed while restoreFormState runs on the forms ids  *)
(* (a sequence), whose listeners are attached.                             *)
RECURSIVE RestoreTimers(_, _, _, _, _)
RestoreTimers(tm, st, reg, els, ids) ==
    IF ids = <<>> \/ ~options.autoSave THEN tm
    ELSE RestoreTimers(ArmDebounce(tm, ids[1], restoreDispatches(st, reg, els, ids[1])
                                               * ListenerSets(ids[1])),
                       st, reg, els, Tail(ids))

RestoreAllElements(st, reg, els, ids) ==
    [f \in DOMAIN els |->
        IF f \in ids /\ f \in DOMAIN reg THEN restoreElementOf(st, reg, els, f) ELSE els[f]]

(* The visibilitychange (hidden), pagehide and beforeunload handlers. *)
FlushEvents == {"visibilitychange", "pagehide", "beforeunload"}

Flush(ev) ==
    /\ ~Busy
    /\ storage' = SaveAll(storage, forms, elements, DOMAIN forms)
    /\ forms' = [f \in DOMAIN forms |-> saveRegistry(forms, f)[f]]
    /\ ev \in FlushEvents
    /\ last' = Op("flush", "all")
    /\ UNCHANGED <<broken, listeners, site, options, elements, attached, timers, now, ticks, phase, incoming>>

(* swup.on('willReplaceContent'): swup has fetched the next page and is    *)
(* about to swap it in.                                                    *)
willReplaceContent(page) ==
    /\ ~Busy
    /\ storage' = SaveAll(storage, forms, elements, DOMAIN forms)
    /\ forms' = [f \in DOMAIN forms |-> saveRegistry(forms, f)[f]]
    /\ incoming' = page
    /\ phase' = "replacing"
    /\ last' = Op("willReplaceContent", "all")
    /\ UNCHANGED <<broken, listeners, site, options, elements, attached, timers, now, ticks>>

(* registerForm for every form of the new document (discoverForms), which  *)
(* runs before attachFormListeners: no listener hears the change events of *)
(* this restore.                                                           *)
discoverForms(dom) == [f \in DOMAIN dom |-> Entry(f)]

(* swup.on('contentReplaced'), run by swup right after it replaced the     *)
(* content. swup replaces its containers only: the forms keep, which are   *)
(* outside them, stay in the document as they are, listeners included.     *)
(* discoverForms finds them again, the restore of registerForm is heard by *)
(* the listeners they carry, and attachFormListeners adds one more set.    *)
contentReplacedKeeping(keep) ==
    /\ phase = "replacing"
    /\ keep \subseteq (DOMAIN incoming \cap DOMAIN elements \cap attached \cap DOMAIN listeners)
    /\ \A f \in keep : listeners[f] < MaxListeners
    /\ LET dom == [f \in DOMAIN incoming |-> IF f \in keep THEN elements[f] ELSE incoming[f]]
           reg == discoverForms(dom)
           kept == SelectSeq(Registered(reg), LAMBDA f : f \in keep)
       IN /\ IF options.autoRestore
             THEN /\ elements' = RestoreAllElements(storage, reg, dom, DOMAIN reg)
                  /\ storage' = RestoreAllListened(
                                    RestoreAllStorage(storage, reg, DOMAIN reg \ keep),
                                    reg, dom, keep)
                  /\ forms' = RestoreAllRegistry(storage, reg, dom, keep)
                  /\ timers' = RestoreTimers(Outlived(timers), storage, reg, dom, kept)
             ELSE /\ elements' = dom
                  /\ storage' = storage
                  /\ forms' = reg
                  /\ timers' = Outlived(timers)
          /\ Len(timers') <= MaxTimers
    /\ listeners' = [f \in DOMAIN incoming |-> IF f \in keep THEN listeners[f] + 1 ELSE 1]
    /\ attached' = DOMAIN incoming
    /\ incoming' = NoForms
    /\ phase' = "animating"
    /\ last' = Op("contentReplaced", "all")
    /\ UNCHANGED <<broken, site, options, now, ticks>>

(* The transition that replaces every form of the document. *)
contentReplaced == contentReplacedKeeping({})

(* swup.on('animationInDone') *)
animationInDone ==
    /\ phase = "animating"
    /\ Len(timers) < MaxTimers
    /\ timers' = Append(timers, Timer("anim", "all", now + AnimWait))
    /\ phase' = "idle"
    /\ last' = Op("animationInDone", "all")
    /\ UNCHANGED <<broken, listeners, site, options, elements, attached, forms, storage, now, ticks, incoming>>

(* The delayed restore armed by animationInDone, lines 544-548. *)
DelayedRestoreFires ==
    /\ ~Busy
    /\ Due # {}
    /\ timers[NextTimer].kind = "anim"
    /\ LET rest == Without(timers, NextTimer)
           tm == RestoreTimers(rest, storage, forms, elements, Registered(forms))
       IN Len(tm) <= MaxTimers /\ timers' = tm
    /\ elements' = RestoreAllElements(storage, forms, elements, DOMAIN forms)
    /\ storage' = RestoreAllListened(storage, forms, elements, DOMAIN forms)
    /\ forms' = RestoreAllRegistry(storage, forms, elements, DOMAIN forms)
    /\ last' = Op("timer-restore", "all")
    /\ UNCHANGED <<broken, listeners, site, options, attached, now, ticks, phase, incoming>>

(* The browser loads a page of the site: the document, the manager and    *)
(* the timers of the page before are gone, storage is what it was.         *)
pageLoad(page) ==
    /\ ~Busy
    /\ incoming' = page
    /\ elements' = NoForms
    /\ attached' = {}
    /\ forms' = [f \in {} |-> Entry(f)]
    /\ timers' = <<>>
    /\ phase' = "loading"
    /\ listeners' = [f \in {} |-> 1]
    /\ last' = Op("load", "all")
    /\ UNCHANGED <<broken, site, options, storage, now, ticks>>

(* constructor and init of the manager the loaded page creates. *)
init(opts) ==
    /\ phase = "loading"
    /\ options' = opts
    /\ LET reg == discoverForms(incoming)
       IN /\ forms' = reg
          /\ IF opts.autoRestore
             THEN /\ elements' = RestoreAllElements(storage, reg, incoming, DOMAIN reg)
                  /\ storage' = RestoreAllStorage(storage, reg, DOMAIN reg)
             ELSE /\ elements' = incoming
                  /\ storage' = storage
    /\ attached' = DOMAIN incoming
    /\ incoming' = NoForms
    /\ phase' = "idle"
    /\ listeners' = [f \in DOMAIN incoming |-> 1]
    /\ last' = Op("init", "all")
    /\ UNCHANGED <<broken, site, timers, now, ticks>>

(* The public methods save, restore and clear; target is a form id or      *)
(* "all" for a call without argument.                                      *)
Targets == site \cup {"all"}

TargetIds(reg, target) == IF target = "all" THEN DOMAIN reg ELSE {target}

TargetSeq(reg, target) == IF target = "all" THEN Registered(reg) ELSE <<target>>

save(target) ==
    /\ ~Busy
    /\ storage' = SaveAll(storage, forms, elements, TargetIds(forms, target))
    /\ forms' = [f \in DOMAIN forms |->
                    IF f \in TargetIds(forms, target) THEN saveRegistry(forms, f)[f]
                    ELSE forms[f]]
    /\ last' = Op("save", target)
    /\ UNCHANGED <<broken, listeners, site, options, elements, attached, timers, now, ticks, phase, incoming>>

restore(target) ==
    /\ ~Busy
    /\ LET tm == RestoreTimers(timers, storage, forms, elements, TargetSeq(forms, target))
       IN Len(tm) <= MaxTimers /\ timers' = tm
    /\ elements' = RestoreAllElements(storage, forms, elements, TargetIds(forms, target))
    /\ storage' = RestoreAllListened(storage, forms, elements, TargetIds(forms, target))
    /\ forms' = RestoreAllRegistry(storage, forms, elements, TargetIds(forms, target))
    /\ last' = Op("restore", target)
    /\ UNCHANGED <<broken, listeners, site, options, attached, now, ticks, phase, incoming>>

clear(target) ==
    /\ ~Busy
    /\ storage' = ClearAll(storage, forms, TargetIds(forms, target))
    /\ last' = Op("clear", target)
    /\ UNCHANGED <<broken, listeners, site, options, elements, attached, forms, timers, now, ticks, phase, incoming>>

(* Time passes; the event loop runs the timers that are due before the    *)
(* clock moves on.                                                         *)
Steps == {1000, maxAge}

Tick(d) ==
    /\ ~Busy
    /\ Due = {}
    /\ ticks < MaxTicks
    /\ now' = now + d
    /\ ticks' = ticks + 1
    /\ last' = Op("tick", "all")
    /\ UNCHANGED <<broken, listeners, site, options, elements, attached, forms, storage, timers, phase, incoming>>

Next ==
    \/ \E f \in FormIds : ChangeEvent(f)
    \/ \E f \in FormIds : handleFormSubmit(f)
    \/ \E f \in FormIds : RemoveFromPage(f)
    \/ DebounceFires
    \/ SubmitCheckFires
    \/ DelayedRestoreFires
    \/ \E ev \in FlushEvents : Flush(ev)
    \/ \E page \in Pages(site) : willReplaceContent(page)
    \/ contentReplaced
    \/ animationInDone
    \/ \E t \in Targets : save(t)
    \/ \E t \in Targets : restore(t)
    \/ \E t \in Targets : clear(t)
    \/ \E d \in Steps : Tick(d)
    \/ \E page \in Pages(site) : pageLoad(page)
    \/ init(options)

Spec == Init /\ [][Next]_vars

(* The two-form site at one instant: the handlers that need no timer to    *)
(* fire.                                                                   *)
NextSite ==
    \/ \E f \in FormIds, v \in {"", "a"} : InputEvent(f, v)
    \/ \E f \in FormIds : ChangeEvent(f)
    \/ \E ev \in FlushEvents : Flush(ev)
    \/ \E page \in Pages(site) : willReplaceContent(page)
    \/ contentReplaced
    \/ \E t \in Targets : save(t)
    \/ \E t \in Targets : restore(t)
    \/ \E t \in Targets : clear(t)
    \/ \E page \in Pages(site) : pageLoad(page)
    \/ init(options)

SpecSite == InitSite /\ [][NextSite]_vars

----------------------------------------------------------------------------
(* The store specification: the two-form site with a store that can fail   *)
(* for form f1 and can hold an entry for it that the manager did not       *)
(* write; the user edits form f2.                                          *)

(* The try block of getDebugInfo for one form, lines 650-656: null when    *)
(* nothing is stored, the parsed entry when there is one, 'Error loading'  *)
(* when getItem or JSON.parse throws.                                      *)
debugEntry(st, reg, formId) ==
    LET key == reg[formId].storageKey
    IN IF key \in broken THEN [kind |-> "error"]
       ELSE IF key \notin DOMAIN st THEN [kind |-> "null"]
       ELSE IF ~Parses(st[key]) THEN [kind |-> "error"]
       ELSE [kind |-> "data", data |-> st[key]]

getDebugInfo ==
    /\ ~Busy
    /\ last' = [op |-> "getDebugInfo", form |-> "all",
                 storage |-> [f \in DOMAIN forms |-> debugEntry(storage, forms, f)]]
    /\ UNCHANGED <<broken, listeners, site, options, elements, attached, forms, storage, timers, now,
                   ticks, phase, incoming>>

(* The store starts or stops throwing for the entries of the forms ids     *)
(* (quota exceeded for the size of their envelopes, storage disabled).     *)
StorageFault(ids) ==
    /\ ~Busy
    /\ broken' = {StorageKey(f) : f \in ids}
    /\ broken' # broken
    /\ last' = Op("fault", "all")
    /\ UNCHANGED <<listeners, site, options, elements, attached, forms, storage, timers, now,
                   ticks, phase, incoming>>

(* Something other than the manager (another script of the page, a write   *)
(* that was cut short) leaves text under the key of form f that is not     *)
(* JSON.                                                                   *)
Garble(f) ==
    /\ ~Busy
    /\ f \in site
    /\ StorageKey(f) \notin broken
    /\ storage' = (StorageKey(f) :> Garbled) @@ storage
    /\ last' = Op("garble", f)
    /\ UNCHANGED <<broken, listeners, site, options, elements, attached, forms, timers, now,
                   ticks, phase, incoming>>

Faults == {{}, {"f1"}}

NextStore ==
    \/ \E f \in FormIds : ChangeEvent(f)
    \/ DebounceFires
    \/ \E t \in Targets : save(t)
    \/ \E t \in Targets : restore(t)
    \/ \E t \in Targets : clear(t)
    \/ getDebugInfo
    \/ Tick(maxAge)
    \/ \E ids \in Faults : StorageFault(ids)
    \/ Garble("f1")

SpecStore == InitSite /\ [][NextStore]_vars

----------------------------------------------------------------------------
(* The timing specification: the one-form site with a clock that moves in  *)
(* steps shorter than the debounce wait, and timers that fire.             *)

(* A change event of a burst; no burst starts after MaxNow. *)
BurstEvent(f) == now < MaxNow /\ ChangeEvent(f)

(* Time passes until the next pending timer is due. *)
Elapse ==
    /\ ~Busy
    /\ timers # <<>>
    /\ Due = {}
    /\ now' = CHOOSE t \in {timers[i].due : i \in 1..Len(timers)} :
                    \A i \in 1..Len(timers) : t <= timers[i].due
    /\ last' = Op("tick", "all")
    /\ UNCHANGED <<broken, listeners, site, options, elements, attached, forms, storage, timers, ticks,
                   phase, incoming>>

NextLive ==
    \/ \E f \in FormIds : BurstEvent(f)
    \/ DebounceFires
    \/ \E t \in Targets : clear(t)
    \/ \E t \in Targets : save(t)
    \/ Tick(AnimWait)
    \/ Elapse

(* Timers that are due fire, and time does not stop. *)
SpecLive == Init /\ [][NextLive]_vars /\ WF_vars(DebounceFires) /\ WF_vars(Elapse)

----------------------------------------------------------------------------
(* The widget specification: a site whose one form holds the Freeform      *)
(* widgets that attachFreeformListeners listens to.                        *)

(* The 'change' listener of a .checklist or .deutschFremd container, lines *)
(* 168-172, after the user toggled checkbox i in it; the checkbox's own    *)
(* listener (attachInputListeners) hears the event as well.                *)
GroupChange(f, i) ==
    /\ Interactive(f)
    /\ i \in 1..Len(elements[f])
    /\ elements[f][i].type = "checkbox"
    /\ elements[f][i].group
    /\ LET els == [elements EXCEPT ![f][i].checked = ~@]
       IN /\ elements' = els
          /\ storage' = saveStorage(storage, forms, els, f)
    /\ forms' = saveRegistry(forms, f)
    /\ IF options.autoSave
       THEN /\ Len(timers) + ListenerSets(f) <= MaxTimers
            /\ timers' = ArmDebounce(timers, f, ListenerSets(f))
       ELSE timers' = timers
    /\ last' = Op("group-change", f)
    /\ UNCHANGED <<broken, listeners, site, options, attached, now, ticks, phase, incoming>>

(* The 'change' listener of a .fileuploader container, lines 161-165,      *)
(* after the user chose or removed a file in file input i (no listener of  *)
(* attachInputListeners is on a file input).                               *)
UploaderChange(f, i) ==
    /\ Interactive(f)
    /\ i \in 1..Len(elements[f])
    /\ elements[f][i].type = "file"
    /\ elements[f][i].group
    /\ LET els == [elements EXCEPT ![f][i].value = IF @ = "" THEN "doc.pdf" ELSE ""]
       IN /\ elements' = els
          /\ storage' = saveStorage(storage, forms, els, f)
    /\ forms' = saveRegistry(forms, f)
    /\ last' = Op("upload", f)
    /\ UNCHANGED <<broken, listeners, site, options, attached, timers, now, ticks, phase, incoming>>

(* The 'click' listener of a .selectMultiple container, lines 155-157,     *)
(* after the click opened or closed the dropdown of hidden input i.        *)
WidgetClick(f, i) ==
    /\ Interactive(f)
    /\ i \in 1..Len(elements[f])
    /\ elements[f][i].type = "hidden"
    /\ elements' = [elements EXCEPT ![f][i].open = ~@]
    /\ Len(timers) + ListenerSets(f) <= MaxTimers
    /\ timers' = Arm(timers, Timer("click", f, now + ClickWait), ListenerSets(f))
    /\ last' = Op("click", f)
    /\ UNCHANGED <<broken, listeners, site, options, attached, forms, storage, now, ticks, phase,
                   incoming>>

(* The callback of that setTimeout: saveFormState(formId) *)
ClickFires ==
    /\ ~Busy
    /\ Due # {}
    /\ timers[NextTimer].kind = "click"
    /\ LET f == timers[NextTimer].form
       IN /\ storage' = saveStorage(storage, forms, elements, f)
          /\ forms' = saveRegistry(forms, f)
          /\ last' = Op("timer-click", f)
    /\ timers' = Without(timers, NextTimer)
    /\ UNCHANGED <<broken, listeners, site, options, elements, attached, now, ticks, phase, incoming>>

InitWidgets == InitOn({"f3"})

NextWidgets ==
    \/ \E i \in 1..Len(WidgetForm(FALSE)) : GroupChange("f3", i)
    \/ \E i \in 1..Len(WidgetForm(FALSE)) : UploaderChange("f3", i)
    \/ \E i \in 1..Len(WidgetForm(FALSE)) : WidgetClick("f3", i)
    \/ ClickFires
    \/ DebounceFires
    \/ DelayedRestoreFires
    \/ \E t \in Targets : restore(t)
    \/ \E page \in Pages(site) : willReplaceContent(page)
    \/ contentReplaced
    \/ animationInDone
    \/ Tick(SubmitWait)

SpecWidgets == InitWidgets /\ [][NextWidgets]_vars

----------------------------------------------------------------------------
(* The persistent-form specification: the checkbox form is outside the     *)
(* containers swup replaces (a newsletter form in the page footer), so a   *)
(* transition may leave its element in the document.                       *)

NextKeep ==
    \/ ChangeEvent("f2")
    \/ handleFormSubmit("f2")
    \/ DebounceFires
    \/ SubmitCheckFires
    \/ DelayedRestoreFires
    \/ \E page \in Pages(site) : willReplaceContent(page)
    \/ \E keep \in SUBSET site : contentReplacedKeeping(keep)
    \/ animationInDone
    \/ Tick(SubmitWait)

SpecKeep == Init /\ [][NextKeep]_vars

----------------------------------------------------------------------------
(* The codec specification: one form, drawn from the forms of at most      *)
(* MaxLen controls, is saved, restored, carried over a swup transition to  *)
(* a freshly rendered form of the same structure, and met again by a       *)
(* manager that was configured with another exclusion list.                *)

Controls ==
    {Text("a", v) : v \in {"", "x", "y"}}
    \cup {Text("honeypot", "x")}
    \cup {Checkbox("a", v, c) : v \in {"x", "y"}, c \in BOOLEAN}
    \cup {Checkbox("honeypot", "x", TRUE)}
    \cup {Radio("a", "x", TRUE), Radio("a", "y", FALSE)}
    \cup {SelectMulti("a", <<Opt("x", s1), Opt("y", s2)>>) : s1, s2 \in BOOLEAN}
    \cup {SelectOne("a", <<Opt("x", TRUE), Opt("y", FALSE)>>)}
    \cup {Widget("a", "x", TRUE)}
    \cup {FileInput("up")}

CodecForms == UNION {[1..n -> Controls] : n \in 0..MaxLen}

(* The same form as the server renders it: empty, or with every box        *)
(* ticked and every text prefilled.                                        *)
FreshControl(e, ticked) ==
    CASE e.type \in {"text", "hidden"} ->
            [e EXCEPT !.value = IF ticked THEN "d" ELSE "", !.open = FALSE]
      [] e.type = "checkbox" -> [e EXCEPT !.checked = ticked]
      [] e.type = "radio" -> [e EXCEPT !.checked = FALSE]
      [] e.type = "select-multiple" ->
            [e EXCEPT !.options = [i \in 1..Len(e.options) |->
                                    [e.options[i] EXCEPT !.selected = ticked]]]
      [] e.type = "select-one" ->
            [e EXCEPT !.options = [i \in 1..Len(e.options) |->
                                    [e.options[i] EXCEPT !.selected = (i = 1)]]]
      [] OTHER -> e

Fresh(form, ticked) == [i \in 1..Len(form) |-> FreshControl(form[i], ticked)]

FreshPages == {[f \in DOMAIN elements |-> Fresh(elements[f], t)] : t \in BOOLEAN}

(* Whether form g is a fresh rendering of form f. *)
SameStructure(f, g) == \E t \in BOOLEAN : Fresh(f, t) = Fresh(g, t)

CodecConfigs == {Opts(FALSE, TRUE, FALSE, ex) : ex \in {DefaultExclude, {"csrf_token"}}}

InitCodec ==
    /\ site = {"f1"}
    /\ options \in CodecConfigs
    /\ elements \in [site -> CodecForms]
    /\ attached = site
    /\ forms = [f \in site |-> Entry(f)]
    /\ storage = [k \in {} |-> 0]
    /\ timers = <<>>
    /\ now = 0
    /\ ticks = 0
    /\ phase = "idle"
    /\ incoming = NoForms
    /\ last = Op("init", "all")
    /\ broken = {}
    /\ listeners = [f \in site |-> 1]

NextCodec ==
    \/ \E t \in Targets : save(t)
    \/ \E t \in Targets : restore(t)
    \/ \E page \in FreshPages : willReplaceContent(page)
    \/ contentReplaced
    \/ \E page \in FreshPages : pageLoad(page)
    \/ \E opts \in CodecConfigs : init(opts)

SpecCodec == InitCodec /\ [][NextCodec]_vars

----------------------------------------------------------------------------
(* Properties *)

Envelope(form) ==
    [state |-> extractFormState(options.excludeFields, form), timestamp |-> now]

PendingDebounce(f) ==
    \E i \in 1..Len(timers) : timers[i].kind = "debounce" /\ timers[i].form = f

(* C1: a step of contentReplaced (autoRestore on) leaves every form that   *)
(* was registered before and is on the new page registered again, with     *)
(* its element being the new page's form after applyFormState with the     *)
(* snapshot that willReplaceContent encoded from the old element; the      *)
(* stored envelope is the same before and after the registry is rebuilt.   *)
C1_NavigationPreserved ==
    [][(last'.op = "contentReplaced" /\ options.autoRestore) =>
        \A f \in DOMAIN forms \cap DOMAIN incoming :
            /\ StorageKey(f) \in DOMAIN storage
            /\ storage[StorageKey(f)].state =
                    extractFormState(options.excludeFields, elements[f])
            /\ f \in DOMAIN forms'
            /\ elements'[f] = applyFormState(incoming[f], storage[StorageKey(f)].state)
            /\ StorageKey(f) \in DOMAIN storage'
            /\ storage'[StorageKey(f)] = storage[StorageKey(f)]]_vars

(* Both forms came through a transition with what the user had entered. *)
C1_Witness ==
    /\ last.op = "contentReplaced"
    /\ options.autoRestore
    /\ DOMAIN forms = {"f1", "f2"}
    /\ elements["f1"][1].value = "a"
    /\ elements["f2"][1].checked
    /\ StorageKey("f1") \in DOMAIN storage
    /\ storage[StorageKey("f1")].state.fields = ("email" :> Scalar("a"))
    /\ StorageKey("f2") \in DOMAIN storage
    /\ storage[StorageKey("f2")].state.fields = ("subscribe" :> Scalar("yes"))

(* C10: right after a visibilitychange (hidden), pagehide, beforeunload or *)
(* willReplaceContent handler, storage holds for every registered form the *)
(* envelope of its present state, stamped now, whether or not a debounce   *)
(* timer is pending for it.                                                *)
C10_FlushSavesAll ==
    last.op \in {"flush", "willReplaceContent"} =>
        \A f \in DOMAIN forms :
            /\ StorageKey(f) \in DOMAIN storage
            /\ storage[StorageKey(f)] = Envelope(elements[f])
            /\ forms[f].lastSaved = now

(* A flush while a debounce timer is pending for an edited form. *)
C10_Witness ==
    /\ last.op = "flush"
    /\ DOMAIN forms = {"f1", "f2"}
    /\ PendingDebounce("f1")
    /\ ~PendingDebounce("f2")
    /\ elements["f1"][1].value = "a"
    /\ storage[StorageKey("f1")].state.fields = ("email" :> Scalar("a"))

(* C3: a write of the debounce path happens for the last event of a burst  *)
(* only: when a debounce timer of a form fires, no debounce timer that was *)
(* armed for the same form less than DebounceWait after it is pending      *)
(* (that later event would have cancelled it), so that the events of one   *)
(* burst end in one write.                                                 *)
C3_OneWritePerBurst ==
    [][last'.op = "timer-save" =>
        ~\E j \in 1..Len(timers') :
            /\ timers'[j].kind = "debounce"
            /\ timers'[j].form = last'.form
            /\ timers'[j].due < timers[NextTimer].due + DebounceWait]_vars

(* C4: after a deferred check that ran with clearOnSubmit on and found no  *)
(* element with the form's identity on the page, storage holds no entry    *)
(* under that identity.                                                    *)
C4_SubmitDiscards ==
    (last.op = "timer-check" /\ options.clearOnSubmit /\ ~FoundOnPage(attached, last.form))
        => StorageKey(last.form) \notin DOMAIN storage

(* C5: a deferred check that finds an element with the form's identity on  *)
(* the page leaves storage as it is; with clearOnSubmit off a submit arms  *)
(* no check and leaves storage as it is.                                   *)
C5_SubmitRetains ==
    [][/\ (last'.op = "timer-check" /\ last'.form \in attached) => storage' = storage
       /\ (last'.op = "submit" /\ ~options.clearOnSubmit) =>
                (storage' = storage /\ timers' = timers)
       /\ ~options.clearOnSubmit =>
                \A i \in 1..Len(timers) : timers[i].kind # "submit"]_vars

(* The check ran for a registered form that is still on the page and has   *)
(* an envelope in storage.                                                 *)
C5_Witness ==
    /\ last.op = "timer-check"
    /\ last.form \in attached
    /\ last.form \in DOMAIN forms
    /\ StorageKey(last.form) \in DOMAIN storage

(* The form element a restore attempt starts from: the form of the page    *)
(* being shown when the attempt is the one of registerForm.                *)
RestoreBase(f) == IF Busy THEN incoming[f] ELSE elements[f]

(* The forms a step made a restore attempt on. *)
RestoreAttempts ==
    CASE last'.op \in {"contentReplaced", "init"} ->
            IF options'.autoRestore THEN DOMAIN forms' ELSE {}
      [] last'.op = "timer-restore" -> DOMAIN forms
      [] last'.op = "restore" -> TargetIds(forms, last'.form) \cap DOMAIN forms
      [] OTHER -> {}

(* C6: a restore attempt on a form whose envelope is older than maxAge     *)
(* leaves the form element as it was and removes the entry; one on a form  *)
(* whose envelope is at most maxAge old applies its snapshot and keeps the *)
(* entry.                                                                  *)
C6_Staleness ==
    [][\A f \in RestoreAttempts :
        StorageKey(f) \in DOMAIN storage =>
            IF now - storage[StorageKey(f)].timestamp > maxAge
            THEN /\ elements'[f] = RestoreBase(f)
                 /\ StorageKey(f) \notin DOMAIN storage'
            ELSE /\ elements'[f] = applyFormState(RestoreBase(f),
                                                 storage[StorageKey(f)].state)
                 /\ StorageKey(f) \in DOMAIN storage'
                 /\ storage'[StorageKey(f)] = storage[StorageKey(f)]]_vars

(* A restore attempt met an envelope of exactly maxAge, applied it and     *)
(* kept it.                                                                *)
C6_Witness ==
    /\ last.op \in {"restore", "timer-restore", "contentReplaced", "init"}
    /\ "f2" \in DOMAIN forms
    /\ StorageKey("f2") \in DOMAIN storage
    /\ now - storage[StorageKey("f2")].timestamp = maxAge
    /\ elements["f2"][1].checked
    /\ storage[StorageKey("f2")].state.fields = ("subscribe" :> Scalar("yes"))

(* The values the controls named n submit, in tree order. *)
ValuesOf(form, n) ==
    LET e == SelectSeq(FormDataEntries(form), LAMBDA x : x.key = n)
    IN [i \in 1..Len(e) |-> e[i].value]

NamesOf(form) == {form[i].name : i \in 1..Len(form)}

(* Every control named n is a text input, a hidden input or a select. *)
PlainName(form, n) ==
    \A i \in 1..Len(form) :
        form[i].name = n => form[i].type \in {"text", "hidden", "select-one", "select-multiple"}

(* C2: restoreFormState on a form whose stored snapshot is the encoding of *)
(* its present state (the form is as it was when it was saved) leaves      *)
(* every control of the form as it is.                                     *)
C2_RoundTrip ==
    [][\A f \in DOMAIN forms :
        (/\ last'.op = "restore"
         /\ f \in TargetIds(forms, last'.form)
         /\ StorageKey(f) \in DOMAIN storage
         /\ storage[StorageKey(f)].state =
                JSONRoundTrip(extractFormState(options.excludeFields, elements[f])))
        => elements'[f] = elements[f]]_vars

(* C7: a checkbox (of a name that is not excluded) that was unchecked when *)
(* willReplaceContent encoded the form is unchecked after contentReplaced  *)
(* decoded the snapshot onto the fresh form of the same structure.         *)
C7_UncheckedStaysUnchecked ==
    [][(last'.op = "contentReplaced" /\ options.autoRestore) =>
        \A f \in DOMAIN forms \cap DOMAIN incoming :
            SameStructure(elements[f], incoming[f]) =>
                \A i \in 1..Len(elements[f]) :
                    (/\ elements[f][i].type = "checkbox"
                     /\ elements[f][i].name \notin options.excludeFields
                     /\ ~elements[f][i].checked)
                    => ~elements'[f][i].checked]_vars

(* C8: an envelope written by a save holds no excluded name, neither as a  *)
(* key nor in _unchecked, and a restore attempt leaves every control with  *)
(* an excluded name as it was, whatever envelope it finds.                 *)
C8_Exclusion ==
    [][/\ last'.op \in {"save", "flush", "willReplaceContent"} =>
            \A f \in DOMAIN forms' :
                forms'[f].lastSaved = now' =>
                    LET st == storage'[StorageKey(f)].state
                    IN /\ DOMAIN st.fields \cap options.excludeFields = {}
                       /\ \A i \in 1..Len(st.unchecked) :
                              st.unchecked[i] \notin options.excludeFields
       /\ \A f \in RestoreAttempts :
            \A i \in 1..Len(RestoreBase(f)) :
                RestoreBase(f)[i].name \in options'.excludeFields =>
                    elements'[f][i] = RestoreBase(f)[i]]_vars

(* C9: after a save, the snapshot holds, under every name that two or more *)
(* values of text, hidden or select controls were submitted under, the     *)
(* list of those values in tree order.                                     *)
C9_MultiValue ==
    last.op = "save" =>
        \A f \in TargetIds(forms, last.form) \cap DOMAIN forms :
            \A n \in NamesOf(elements[f]) \ options.excludeFields :
                (PlainName(elements[f], n) /\ Len(ValuesOf(elements[f], n)) >= 2) =>
                    /\ n \in DOMAIN storage[StorageKey(f)].state.fields
                    /\ storage[StorageKey(f)].state.fields[n] =
                            List(ValuesOf(elements[f], n))

(* What storage st holds under the key of form f: the entry, or nothing. *)
Stored(st, f) == IF StorageKey(f) \in DOMAIN st THEN <<st[StorageKey(f)]>> ELSE <<>>

(* C11: a restore attempt that reads, from a working store, an entry whose *)
(* text does not parse leaves the form element as it was and removes the   *)
(* entry from storage.                                                     *)
C11_MalformedRemoved ==
    [][\A f \in RestoreAttempts :
        (/\ StorageKey(f) \notin broken
         /\ StorageKey(f) \in DOMAIN storage
         /\ ~Parses(storage[StorageKey(f)]))
        => /\ elements'[f] = RestoreBase(f)
           /\ StorageKey(f) \notin DOMAIN storage']_vars

(* C12: in a save, restore or clear over one or all registered forms, a    *)
(* form whose storage operation throws keeps its entry, its lastSaved and  *)
(* its element, and so does on restore a form whose entry does not parse;  *)
(* every other form of the call is saved (entry of its present state,      *)
(* lastSaved now), cleared, or restored from its entry, as without the     *)
(* failure.                                                                *)
C12_ErrorIsolation ==
    [][\A f \in DOMAIN forms :
        (last'.op \in {"save", "restore", "clear"} /\ f \in TargetIds(forms, last'.form)) =>
            LET key == forms[f].storageKey
            IN IF key \in broken
               THEN /\ Stored(storage', f) = Stored(storage, f)
                    /\ forms'[f].lastSaved = forms[f].lastSaved
                    /\ elements'[f] = elements[f]
               ELSE CASE last'.op = "save" ->
                            /\ Stored(storage', f) = <<Envelope(elements[f])>>
                            /\ forms'[f].lastSaved = now
                      [] last'.op = "clear" -> Stored(storage', f) = <<>>
                      [] OTHER ->
                            IF key \in DOMAIN storage /\ Parses(storage[key])
                            THEN elements'[f] =
                                    IF Expired(storage[key]) THEN elements[f]
                                    ELSE applyFormState(elements[f], storage[key].state)
                            ELSE /\ elements'[f] = elements[f]
                                 /\ Stored(storage', f) = Stored(storage, f)]_vars

(* save() with the store throwing for f1: f1 keeps its old entry and its   *)
(* old lastSaved, f2 was saved now.                                        *)
C12_Witness ==
    /\ last = Op("save", "all")
    /\ broken = {StorageKey("f1")}
    /\ DOMAIN forms = {"f1", "f2"}
    /\ now > 0
    /\ forms["f1"].lastSaved = 0
    /\ Stored(storage, "f1") # <<>>
    /\ storage[StorageKey("f1")].timestamp = 0
    /\ forms["f2"].lastSaved = now
    /\ elements["f2"][1].checked
    /\ Stored(storage, "f2") = <<Envelope(elements["f2"])>>

(* C13: the storage key of a registered form is storagePrefix followed by  *)
(* its id, two registered forms have different keys, and a handler that    *)
(* runs for one form (an event, a debounce timer, save, restore with its   *)
(* purge, clear) leaves what is stored for every other form as it is.      *)
C13_StoragePartition ==
    [][/\ \A f \in DOMAIN forms : forms[f].storageKey = storagePrefix \o f
       /\ \A f, g \in DOMAIN forms : f # g => forms[f].storageKey # forms[g].storageKey
       /\ \A g \in FormIds :
            (/\ last'.op \in {"change", "timer-save", "save", "restore", "clear"}
             /\ last'.form \notin {"all", g})
            => Stored(storage', g) = Stored(storage, g)]_vars

(* restore('f1') purged the expired entry of f1; the entry of f2, expired  *)
(* as well, is still there.                                                *)
C13_Witness ==
    /\ last = Op("restore", "f1")
    /\ DOMAIN forms = {"f1", "f2"}
    /\ broken = {}
    /\ forms["f1"].lastSaved # NoTime
    /\ Stored(storage, "f1") = <<>>
    /\ Stored(storage, "f2") # <<>>
    /\ now - storage[StorageKey("f2")].timestamp > maxAge

(* C14: with a store that does not throw, a step of clear leaves no entry  *)
(* under the key of the form it was called for, or of any registered form  *)
(* when called without argument, and leaves the registry and the form      *)
(* elements as they are.                                                   *)
C14_Clear ==
    [][last'.op = "clear" =>
        /\ \A f \in TargetIds(forms, last'.form) \cap DOMAIN forms :
                forms[f].storageKey \notin broken => Stored(storage', f) = <<>>
        /\ forms' = forms
        /\ elements' = elements]_vars

(* clear() after both forms were saved, f2 with its box ticked. *)
C14_Witness ==
    /\ last = Op("clear", "all")
    /\ broken = {}
    /\ DOMAIN forms = {"f1", "f2"}
    /\ \A f \in DOMAIN forms : forms[f].lastSaved # NoTime /\ Stored(storage, f) = <<>>
    /\ elements["f2"][1].checked

(* C16: a step that reads the entry of a registered form from a working    *)
(* store (a restore attempt, getDebugInfo) and finds an envelope older     *)
(* than maxAge removes the entry, leaves the form element as it was and    *)
(* does not return the envelope.                                           *)
C16_PurgeOnEveryRead ==
    [][\A f \in DOMAIN forms :
        (/\ f \in RestoreAttempts \/ last'.op = "getDebugInfo"
         /\ StorageKey(f) \notin broken
         /\ StorageKey(f) \in DOMAIN storage
         /\ Parses(storage[StorageKey(f)])
         /\ Expired(storage[StorageKey(f)]))
        => /\ StorageKey(f) \notin DOMAIN storage'
           /\ elements'[f] = elements[f]
           /\ last'.op = "getDebugInfo" => last'.storage[f].kind # "data"]_vars

(* C17: a debounce timer fires no sooner than DebounceWait after the event *)
(* that armed it, so after every event of its burst, and what it writes is *)
(* the encoding of the form as it is when the timer fires, stamped now; it *)
(* changes no form element.                                                *)
C17_NoIntermediateValue ==
    [][last'.op = "timer-save" =>
        /\ now - timers[NextTimer].armed >= DebounceWait
        /\ elements' = elements
        /\ last'.form \in DOMAIN forms =>
                Stored(storage', last'.form) =
                    <<[state     |-> JSONRoundTrip(extractFormState(options.excludeFields,
                                                        elements[last'.form])),
                       timestamp |-> now]>>]_vars

(* The first timer of a burst of two events, 100 ms apart, has fired: the  *)
(* box was ticked and unticked again, and the envelope holds it unticked.  *)
C17_Witness ==
    /\ last = Op("timer-save", "f2")
    /\ \E i \in 1..Len(timers) :
            /\ timers[i].kind = "debounce"
            /\ timers[i].armed > 0
            /\ now - timers[i].armed < DebounceWait
    /\ ~elements["f2"][1].checked
    /\ Stored(storage, "f2") = <<Envelope(elements["f2"])>>
    /\ storage[StorageKey("f2")].state.unchecked = <<"subscribe">>

(* C18: with autoSave on, a change event on the form is followed by a      *)
(* write of a debounce timer that leaves in storage the encoding of the    *)
(* form as it then is.                                                     *)
C18_EventualPersistence ==
    (last = Op("change", "f2") /\ options.autoSave)
        ~> (last = Op("timer-save", "f2") /\ Stored(storage, "f2") = <<Envelope(elements["f2"])>>)

(* The change was written after the entry had been cleared meanwhile. *)
C18_Witness ==
    /\ last = Op("timer-save", "f2")
    /\ options.autoSave
    /\ timers = <<>>
    /\ elements["f2"][1].checked
    /\ Stored(storage, "f2") = <<Envelope(elements["f2"])>>
    /\ storage[StorageKey("f2")].timestamp >= DebounceWait

(* C15: a click on a .selectMultiple, a change in a .fileuploader and a    *)
(* change in a .checklist or .deutschFremd each leave, when their handler  *)
(* returns, the encoding of the form as it then is in storage, stamped     *)
(* now.                                                                    *)
C15_StructuralImmediate ==
    [][last'.op \in {"click", "upload", "group-change"} =>
        Stored(storage', last'.form) =
            <<[state     |-> JSONRoundTrip(extractFormState(options.excludeFields,
                                                            elements'[last'.form])),
               timestamp |-> now]>>]_vars

(* C19: a restore attempt that reads an envelope that parses and is at     *)
(* most maxAge old leaves what is stored for that form as it is.           *)
C19_RestoreKeepsEnvelope ==
    [][\A f \in RestoreAttempts :
        (/\ StorageKey(f) \notin broken
         /\ StorageKey(f) \in DOMAIN storage
         /\ Parses(storage[StorageKey(f)])
         /\ ~Expired(storage[StorageKey(f)]))
        => Stored(storage', f) = Stored(storage, f)]_vars

(* C20: a debounce timer, a dropdown-click timer or a deferred submit      *)
(* check that was armed before the registry was cleared and built again    *)
(* changes neither storage nor the registry when it fires.                 *)
C20_TimersStayInGeneration ==
    [][(last'.op \in {"timer-save", "timer-click", "timer-check"} /\ timers[NextTimer].old)
        => (storage' = storage /\ forms' = forms)]_vars

(* C21: however many transitions rebuilt the registry, and whether or not  *)
(* the form element stayed in the document across them, one change event   *)
(* of a field arms exactly one save timer (autoSave on) and one submit     *)
(* schedules exactly one deferred check (clearOnSubmit on).                *)
C21_SingleListenerSet ==
    [][/\ (last'.op = "change" /\ options.autoSave) => Len(timers') = Len(timers) + 1
       /\ (last'.op = "submit" /\ options.clearOnSubmit) => Len(timers') = Len(timers) + 1]_vars

(* C22: with autoRestore off, registration (at construction and after a   *)
(* transition replaced the content) and the hooks of a transition, the     *)
(* delayed callback of the after-animate hook included, leave every field  *)
(* of the document as the page rendered it or as it was.                   *)
C22_AutoRestoreGate ==
    [][~options'.autoRestore =>
        /\ last'.op \in {"contentReplaced", "init"} => elements' = incoming
        /\ last'.op \in {"willReplaceContent", "animationInDone", "timer-restore"}
              => elements' = elements]_vars

====
